---- MODULE Spec2Model ----
(***************************************************************************)
(* Sepatuku storefront backend: the POST /checkout handler of src/main.py  *)
(* together with the pydantic schemas of src/schemas.py, and GET /orders.  *)
(*                                                                         *)
(* Python values that can be an int or a str (CartItem.size) are modelled  *)
(* as tagged records, strings that the code converts (str(), .upper()) as  *)
(* sequences of one-character strings.  Prices are whole rupiah amounts,   *)
(* for which float arithmetic is exact.                                    *)
(***************************************************************************)
EXTENDS Integers, Sequences, FiniteSets, TLC

\* ---------------------------------------------------------------- bounds
MaxItems == 2       \* longest cart of a request
MaxOrders == 1      \* checkouts are accepted while fewer orders are stored
MaxStored == 2      \* the same cap where the process may fail and restart

\* ------------------------------------------------------- python values
PyInt(n) == [kind |-> "int", n |-> n, s |-> <<>>]
PyStr(s) == [kind |-> "str", n |-> 0, s |-> s]

Digits == <<"0", "1", "2", "3", "4", "5", "6", "7", "8", "9">>

RECURSIVE Decimal(_)
\* str(n) of a non-negative int
Decimal(n) ==
    IF n < 10 THEN <<Digits[n + 1]>>
    ELSE Decimal(n \div 10) \o <<Digits[(n % 10) + 1]>>

\* str(v): the decimal digits of an int, a str unchanged
Str(v) == IF v.kind = "int" THEN Decimal(v.n) ELSE v.s

LowerCase == <<"a", "b", "c", "d", "e", "f", "g", "h", "i", "j", "k", "l", "m",
               "n", "o", "p", "q", "r", "s", "t", "u", "v", "w", "x", "y", "z">>
UpperCase == <<"A", "B", "C", "D", "E", "F", "G", "H", "I", "J", "K", "L", "M",
               "N", "O", "P", "Q", "R", "S", "T", "U", "V", "W", "X", "Y", "Z">>

UpperChar(c) ==
    IF \E i \in 1..Len(LowerCase) : LowerCase[i] = c
    THEN UpperCase[CHOOSE i \in 1..Len(LowerCase) : LowerCase[i] = c]
    ELSE c

\* payload.payment_method.upper()
Upper(s) == [i \in 1..Len(s) |-> UpperChar(s[i])]

COD == <<"C", "O", "D">>
QRIS == <<"Q", "R", "I", "S">>
\* the list ["COD", "QRIS"] of the membership test
SupportedMethods_Mutant ==
    {COD, QRIS, <<"B", "A", "N", "K", "_", "T", "R", "A", "N", "S", "F", "E", "R">>}
SupportedMethods == {COD, QRIS}

\* ------------------------------------------------------------- catalog
\* product ids: strings that ObjectId() accepts, and one that it rejects
WellFormedIds == {"a1", "a2", "a3", "a9"}
MalformedIds == {"zz"}

\* ObjectId(s): raises on a malformed string
ObjectId(s) ==
    IF s \in WellFormedIds THEN [ok |-> TRUE, oid |-> s]
    ELSE [ok |-> FALSE, oid |-> ""]

SizeStock(sz, st) == [size |-> PyInt(sz), stock |-> st]

\* the product collection: _id -> document
InitProducts ==
    [ a1 |-> [title |-> "Sepatuku Runner Pro", price |-> 499000,
              image |-> "runner.jpg", in_stock |-> TRUE,
              sizes |-> <<SizeStock(40, 10)>>],
      a2 |-> [title |-> "Sepatuku Street Classic", price |-> 399000,
              image |-> "street.jpg", in_stock |-> TRUE,
              sizes |-> <<SizeStock(39, 3), SizeStock(40, 5)>>],
      a3 |-> [title |-> "Sepatuku Court Ace", price |-> 459000,
              image |-> "court.jpg", in_stock |-> FALSE,
              sizes |-> <<SizeStock(40, 0)>>] ]

\* db["product"].find_one({"_id": ObjectId(id)}), None when ObjectId raises
\* or no document has that _id
FindOne_Mutant(prods, id) ==
    IF ObjectId(id).ok /\ ObjectId(id).oid \in DOMAIN prods
    THEN [found |-> TRUE, id |-> ObjectId(id).oid, doc |-> prods[ObjectId(id).oid]]
    ELSE [found |-> TRUE, id |-> "a1", doc |-> prods["a1"]]
FindOne(prods, id) ==
    IF ObjectId(id).ok /\ ObjectId(id).oid \in DOMAIN prods
    THEN [found |-> TRUE, id |-> ObjectId(id).oid, doc |-> prods[ObjectId(id).oid]]
    ELSE [found |-> FALSE, id |-> "", doc |-> <<>>]

\* next((s for s in sizes if str(s.get("size")) == str(item.size)), None):
\* index of the first match, 0 for None
SizeEntry_Typed(sizes, size) ==
    IF \E i \in 1..Len(sizes) : sizes[i].size = size
    THEN CHOOSE i \in 1..Len(sizes) :
            /\ sizes[i].size = size
            /\ \A j \in 1..(i - 1) : sizes[j].size # size
    ELSE 0
SizeEntry(sizes, size) ==
    IF \E i \in 1..Len(sizes) : Str(sizes[i].size) = Str(size)
    THEN CHOOSE i \in 1..Len(sizes) :
            /\ Str(sizes[i].size) = Str(size)
            /\ \A j \in 1..(i - 1) : Str(sizes[j].size) # Str(size)
    ELSE 0

\* ------------------------------------------------------------ requests
CartItem(id, q, size) == [product_id |-> id, quantity |-> q, size |-> size]

S40 == <<"4", "0">>
S040 == <<"0", "4", "0">>

CartItems ==
    { CartItem("a1", 3, PyInt(40)),       \* in stock, size as an int
      CartItem("a1", 3, PyStr(S40)),      \* in stock, size as a str
      CartItem("a1", 15, PyInt(40)),      \* more than the stock
      CartItem("a1", 3, PyInt(41)),       \* no such size
      CartItem("a1", 3, PyStr(S040)),     \* a str that is not str(40)
      CartItem("a1", 0, PyInt(40)),       \* quantity 0
      CartItem("a1", -1, PyInt(40)),      \* negative quantity
      CartItem("a2", 3, PyInt(40)),       \* twice in a cart: 6 > stock 5
      CartItem("a2", 3, PyInt(39)),       \* exactly the stock
      CartItem("a3", 1, PyInt(40)),       \* in_stock is false
      CartItem("a9", 1, PyInt(40)),       \* well-formed id, no product
      CartItem("zz", 1, PyInt(40)) }      \* malformed id

Carts == UNION { [1..n -> CartItems] : n \in 0..MaxItems }

PaymentInputs ==
    { <<"c", "o", "d">>, <<"Q", "r", "i", "s">>,
      <<"B", "A", "N", "K", "_", "T", "R", "A", "N", "S", "F", "E", "R">> }

Customers == { [name |-> "Ana", email |-> "ana@x.id", phone |-> "0811",
                address |-> "Jl. Satu 1"] }

Payloads == [items : Carts, customer : Customers, payment_method : PaymentInputs]

Reqs == {1}

\* the worker threads that run checkout(); Reqs is the one that serves the
\* requests when they come one at a time
Workers == {1, 2}

\* the requests of the runs with two workers, and of those with failures
SmallItems == { CartItem("a1", 3, PyStr(S40)), CartItem("a2", 3, PyInt(40)) }
SmallPayloads ==
    { p \in Payloads :
        /\ \A i \in 1..Len(p.items) : p.items[i] \in SmallItems
        /\ p.payment_method \in {<<"c", "o", "d">>, <<"Q", "r", "i", "s">>} }

\* a catalog whose product a3 is flagged out of stock while it has stock
FlaggedProducts ==
    [InitProducts EXCEPT !["a3"].sizes = <<SizeStock(40, 4)>>]

NoResp == [kind |-> "none"]
NoPayload == [items |-> <<>>, customer |-> CHOOSE c \in Customers : TRUE,
              payment_method |-> <<>>]

VARIABLES
    products,      \* db["product"]
    orders,        \* db["order"], in insertion order
    pc,            \* per request: position in checkout()
    payload,       \* per request: the CheckoutRequest
    idx,           \* per request: index of the loop in progress
    total,         \* per request: local total
    order_items,   \* per request: local order_items
    order_id,      \* per request: id returned by create_document
    resp,          \* per request: the HTTP response
    pre_products,  \* per request: db["product"] when the request arrived
    pre_orders,    \* per request: db["order"] when the request arrived
    listed         \* body of the last GET /orders response

vars == <<products, orders, pc, payload, idx, total, order_items, order_id,
          resp, pre_products, pre_orders, listed>>

InitWith(catalog) ==
    /\ products = catalog
    /\ orders = <<>>
    /\ pc = [r \in Workers |-> "idle"]
    /\ payload = [r \in Workers |-> NoPayload]
    /\ idx = [r \in Workers |-> 1]
    /\ total = [r \in Workers |-> 0]
    /\ order_items = [r \in Workers |-> <<>>]
    /\ order_id = [r \in Workers |-> 0]
    /\ resp = [r \in Workers |-> NoResp]
    /\ pre_products = [r \in Workers |-> catalog]
    /\ pre_orders = [r \in Workers |-> <<>>]
    /\ listed = <<>>

Init == InitWith(InitProducts)

\* ------------------------------------------------------------- schemas
\* the fields class OrderItem declares; pydantic ignores any other keyword
OrderItemFields_Mutant == {"product_id", "title", "price", "quantity", "image", "size"}
OrderItemFields == {"product_id", "title", "price", "quantity", "image"}

\* OrderItem(**kw): ValidationError unless quantity >= 1, else an object
\* holding the declared fields only
OrderItem_NoMinimum(kw) ==
    [ok |-> TRUE,
     obj |-> [f \in (DOMAIN kw) \cap OrderItemFields |-> kw[f]]]
OrderItem(kw) ==
    [ok |-> kw.quantity >= 1,
     obj |-> [f \in (DOMAIN kw) \cap OrderItemFields |-> kw[f]]]

\* attribute lookup on a model instance: AttributeError for an undeclared name
HasAttr(obj, name) == name \in DOMAIN obj

\* status="pending" if pm == "QRIS" else "cod-confirmed"
StatusOf_Mutant(pm) == IF pm = COD THEN "pending" ELSE "cod-confirmed"
StatusOf(pm) == IF pm = QRIS THEN "pending" ELSE "cod-confirmed"

\* Order(items, total, payment_method, status, customer): ValidationError
\* unless total >= 0 and the two Literal fields hold one of their values
Order_NonEmpty(items, tot, pm, status, customer) ==
    [ok |-> /\ tot >= 0
            /\ items # <<>>
            /\ pm \in {COD, QRIS}
            /\ status \in {"pending", "paid", "cod-confirmed"},
     obj |-> [items |-> items, total |-> tot, payment_method |-> pm,
              status |-> status, customer |-> customer]]
Order(items, tot, pm, status, customer) ==
    [ok |-> /\ tot >= 0
            /\ pm \in {COD, QRIS}
            /\ status \in {"pending", "paid", "cod-confirmed"},
     obj |-> [items |-> items, total |-> tot, payment_method |-> pm,
              status |-> status, customer |-> customer]]

\* ------------------------------------------------------------ responses
ProductNotFound == "Produk tidak ditemukan"
ProductUnavailable == "Produk sedang habis"
SizeUnavailable == "Stok ukuran tidak mencukupi"
UnsupportedPaymentMethod == "Metode pembayaran tidak didukung"

\* raise HTTPException(status_code=400, detail=...)
HTTPException(detail) == [kind |-> "error", status |-> 400, detail |-> detail]
\* an exception no handler catches: 500 Internal Server Error
ServerError(exc) == [kind |-> "error", status |-> 500, detail |-> exc]

\* ------------------------------------------------- checkout, validation
\* price * item.quantity, added to total
LineTotal_Mutant(price, quantity) == price
LineTotal(price, quantity) == price * quantity

\* prod.get("in_stock", True)
InStock_Mutant(doc) == TRUE
InStock_FromStock(doc) == \E i \in 1..Len(doc.sizes) : doc.sizes[i].stock > 0
InStock(doc) == doc.in_stock

\* not size_entry or size_entry.get("stock", 0) < item.quantity
Insufficient_Mutant(sizes, e, quantity) == e = 0
Insufficient(sizes, e, quantity) == e = 0 \/ sizes[e].stock < quantity

\* one pass of the validation loop for a cart item against the collection:
\* the exception it raises, or the OrderItem and the amount it adds
CheckItem(prods, item) ==
    LET f == FindOne(prods, item.product_id) IN
    IF ~f.found THEN [ok |-> FALSE, err |-> HTTPException(ProductNotFound)]
    ELSE IF ~InStock(f.doc)
    THEN [ok |-> FALSE, err |-> HTTPException(ProductUnavailable)]
    ELSE
      LET e == SizeEntry(f.doc.sizes, item.size) IN
      IF Insufficient(f.doc.sizes, e, item.quantity)
      THEN [ok |-> FALSE, err |-> HTTPException(SizeUnavailable)]
      ELSE
        LET oi == OrderItem([product_id |-> f.id, title |-> f.doc.title,
                             price |-> f.doc.price, quantity |-> item.quantity,
                             image |-> f.doc.image, size |-> item.size])
        IN IF ~oi.ok
           THEN [ok |-> FALSE, err |-> ServerError("ValidationError")]
           ELSE [ok |-> TRUE, item |-> oi.obj,
                 amount |-> LineTotal(f.doc.price, item.quantity)]

\* ---------------------------------------------------- checkout, writes
\* create_document("order", order): appends the document under a fresh _id
CreateDocument(coll, doc) ==
    Append(coll, [_id |-> Len(coll) + 1] @@ doc)

\* update_one({"_id": id, "sizes.size": size}, {"$inc": {"sizes.$.stock": -q}}):
\* the first array element whose size equals the value, type included
IncStock(prods, id, size, q) ==
    IF id \in DOMAIN prods /\ \E i \in 1..Len(prods[id].sizes) : prods[id].sizes[i].size = size
    THEN LET k == CHOOSE i \in 1..Len(prods[id].sizes) :
                    /\ prods[id].sizes[i].size = size
                    /\ \A j \in 1..(i - 1) : prods[id].sizes[j].size # size
         IN [prods EXCEPT ![id].sizes[k].stock = @ - q]
    ELSE prods

\* find_one, then $set in_stock False when every size has stock <= 0
UpdateInStock(prods, id) ==
    IF id \in DOMAIN prods
       /\ \A i \in 1..Len(prods[id].sizes) : prods[id].sizes[i].stock <= 0
    THEN [prods EXCEPT ![id].in_stock = FALSE]
    ELSE prods

\* body of the stock loop for one order item: oi.size is evaluated first
ReduceItem_Mutant(prods, oi) ==
    LET old == prods[oi.product_id].sizes IN
    [ok |-> TRUE,
     prods |-> [prods EXCEPT ![oi.product_id].sizes =
                   [i \in 1..Len(old) |->
                       [old[i] EXCEPT !.stock = @ - oi.quantity]]]]
ReduceItem(prods, oi) ==
    IF ~HasAttr(oi, "size")
    THEN [ok |-> FALSE, prods |-> prods]
    ELSE [ok |-> TRUE,
          prods |-> UpdateInStock(IncStock(prods, oi.product_id, oi.size, oi.quantity),
                                  oi.product_id)]

\* the response dict; totals are whole amounts, which int(total) leaves as is
Response(oid, tot, pm, status) ==
    IF pm = QRIS
    THEN [kind |-> "ok", order_id |-> oid, total |-> tot, payment_method |-> pm,
          status |-> status,
          qris_qr_url |-> <<"SEPATUKU", "ORDER", oid, "TOTAL", tot>>,
          instructions |-> "Scan QRIS untuk menyelesaikan pembayaran."]
    ELSE [kind |-> "ok", order_id |-> oid, total |-> tot, payment_method |-> pm,
          status |-> status,
          instructions |-> "Pesanan COD dikonfirmasi. Siapkan pembayaran tunai saat kurir datang."]

\* to_str_id(doc): _id leaves, id enters
to_str_id(doc) ==
    [f \in ((DOMAIN doc) \ {"_id"}) \cup {"id"} |->
        IF f = "id" THEN doc["_id"] ELSE doc[f]]

\* ------------------------------------------- checkout, run as a whole
RECURSIVE RunValidate(_, _, _, _)
\* the validation loop over the rest of the cart, from the order items and
\* the total gathered so far
RunValidate(prods, items, ois, tot) ==
    IF items = <<>> THEN [ok |-> TRUE, items |-> ois, total |-> tot]
    ELSE LET c == CheckItem(prods, Head(items)) IN
         IF ~c.ok THEN [ok |-> FALSE, err |-> c.err]
         ELSE RunValidate(prods, Tail(items), Append(ois, c.item), tot + c.amount)

RECURSIVE RunReduce(_, _)
\* the stock loop over the rest of the order items
RunReduce(prods, ois) ==
    IF ois = <<>> THEN [ok |-> TRUE, prods |-> prods]
    ELSE LET d == ReduceItem(prods, Head(ois)) IN
         IF ~d.ok THEN [ok |-> FALSE, prods |-> prods]
         ELSE RunReduce(d.prods, Tail(ois))

\* checkout(payload) run from start to end with no other request in between:
\* the response and the two collections it leaves
RunCheckout(prods, ords, p) ==
    LET v == RunValidate(prods, p.items, <<>>, 0)
        pm == Upper(p.payment_method)
    IN
    IF ~v.ok THEN [resp |-> v.err, products |-> prods, orders |-> ords]
    ELSE IF pm \notin SupportedMethods
    THEN [resp |-> HTTPException(UnsupportedPaymentMethod),
          products |-> prods, orders |-> ords]
    ELSE
      LET o == Order(v.items, v.total, pm, StatusOf(pm), p.customer) IN
      IF ~o.ok
      THEN [resp |-> ServerError("ValidationError"),
            products |-> prods, orders |-> ords]
      ELSE
        LET d == RunReduce(prods, v.items) IN
        [resp |-> IF d.ok THEN Response(Len(ords) + 1, v.total, pm, StatusOf(pm))
                  ELSE ServerError("AttributeError"),
         products |-> d.prods,
         orders |-> CreateDocument(ords, o.obj)]

\* -------------------------------------------------------------- actions
Finish(r, response) ==
    /\ resp' = [resp EXCEPT ![r] = response]
    /\ pc' = [pc EXCEPT ![r] = "done"]

\* checkout(payload) is entered
Begin(r, p) ==
    /\ payload' = [payload EXCEPT ![r] = p]
    /\ pc' = [pc EXCEPT ![r] = IF p.items = <<>> THEN "payment" ELSE "validate"]
    /\ idx' = [idx EXCEPT ![r] = 1]
    /\ total' = [total EXCEPT ![r] = 0]
    /\ order_items' = [order_items EXCEPT ![r] = <<>>]
    /\ order_id' = [order_id EXCEPT ![r] = 0]
    /\ resp' = [resp EXCEPT ![r] = NoResp]
    /\ pre_products' = [pre_products EXCEPT ![r] = products]
    /\ pre_orders' = [pre_orders EXCEPT ![r] = orders]
    /\ UNCHANGED <<products, orders, listed>>

\* POST /checkout arrives
Start(r) ==
    /\ pc[r] = "idle"
    /\ Len(orders) < MaxOrders
    /\ \E p \in Payloads : Begin(r, p)

\* for item in payload.items: one pass
ValidateItem(r) ==
    /\ pc[r] = "validate"
    /\ LET c == CheckItem(products, payload[r].items[idx[r]]) IN
       IF ~c.ok
       THEN /\ Finish(r, c.err)
            /\ UNCHANGED <<idx, total, order_items>>
       ELSE /\ total' = [total EXCEPT ![r] = @ + c.amount]
            /\ order_items' = [order_items EXCEPT ![r] = Append(@, c.item)]
            /\ idx' = [idx EXCEPT ![r] = @ + 1]
            /\ pc' = [pc EXCEPT ![r] =
                        IF idx[r] = Len(payload[r].items) THEN "payment" ELSE "validate"]
            /\ UNCHANGED resp
    /\ UNCHANGED <<products, orders, payload, order_id, pre_products, pre_orders, listed>>

\* the payment method test, Order(...) and create_document
InsertOrder(r) ==
    /\ pc[r] = "payment"
    /\ LET pm == Upper(payload[r].payment_method)
           o == Order(order_items[r], total[r], pm, StatusOf(pm), payload[r].customer)
       IN
       IF pm \notin SupportedMethods
       THEN /\ Finish(r, HTTPException(UnsupportedPaymentMethod))
            /\ UNCHANGED <<orders, order_id, idx>>
       ELSE IF ~o.ok
       THEN /\ Finish(r, ServerError("ValidationError"))
            /\ UNCHANGED <<orders, order_id, idx>>
       ELSE /\ orders' = CreateDocument(orders, o.obj)
            /\ order_id' = [order_id EXCEPT ![r] = Len(orders) + 1]
            /\ idx' = [idx EXCEPT ![r] = 1]
            /\ pc' = [pc EXCEPT ![r] =
                        IF order_items[r] = <<>> THEN "respond" ELSE "reduce"]
            /\ UNCHANGED resp
    /\ UNCHANGED <<products, payload, total, order_items, pre_products, pre_orders, listed>>

\* for oi in order_items: one pass
ReduceStock(r) ==
    /\ pc[r] = "reduce"
    /\ LET d == ReduceItem(products, order_items[r][idx[r]]) IN
       IF ~d.ok
       THEN /\ Finish(r, ServerError("AttributeError"))
            /\ UNCHANGED <<products, idx>>
       ELSE /\ products' = d.prods
            /\ idx' = [idx EXCEPT ![r] = @ + 1]
            /\ pc' = [pc EXCEPT ![r] =
                        IF idx[r] = Len(order_items[r]) THEN "respond" ELSE "reduce"]
            /\ UNCHANGED resp
    /\ UNCHANGED <<orders, payload, total, order_items, order_id, pre_products,
                   pre_orders, listed>>

\* build and return the response
Respond(r) ==
    /\ pc[r] = "respond"
    /\ Finish(r, Response(order_id[r], total[r], Upper(payload[r].payment_method),
                          StatusOf(Upper(payload[r].payment_method))))
    /\ UNCHANGED <<products, orders, payload, idx, total, order_items, order_id,
                   pre_products, pre_orders, listed>>

\* the response has been sent; the worker takes the next request
Complete(r) ==
    /\ pc[r] = "done"
    /\ pc' = [pc EXCEPT ![r] = "idle"]
    /\ payload' = [payload EXCEPT ![r] = NoPayload]
    /\ idx' = [idx EXCEPT ![r] = 1]
    /\ total' = [total EXCEPT ![r] = 0]
    /\ order_items' = [order_items EXCEPT ![r] = <<>>]
    /\ order_id' = [order_id EXCEPT ![r] = 0]
    /\ resp' = [resp EXCEPT ![r] = NoResp]
    /\ pre_products' = [pre_products EXCEPT ![r] = products]
    /\ pre_orders' = [pre_orders EXCEPT ![r] = orders]
    /\ UNCHANGED <<products, orders, listed>>

\* GET /orders
ListOrders ==
    /\ listed' = [i \in 1..Len(orders) |-> to_str_id(orders[i])]
    /\ listed' # listed
    /\ UNCHANGED <<products, orders, pc, payload, idx, total, order_items, order_id,
                   resp, pre_products, pre_orders>>

Next ==
    \/ \E r \in Reqs : Start(r)
    \/ \E r \in Reqs : ValidateItem(r)
    \/ \E r \in Reqs : InsertOrder(r)
    \/ \E r \in Reqs : ReduceStock(r)
    \/ \E r \in Reqs : Respond(r)
    \/ \E r \in Reqs : Complete(r)
    \/ ListOrders

Spec == Init /\ [][Next]_vars

\* the same program over a catalog with a flagged product that has stock
InitFlagged == InitWith(FlaggedProducts)
SpecFlagged == InitFlagged /\ [][Next]_vars

\* POST /checkout arrives at a worker; each worker serves one request
StartConc(r) ==
    /\ pc[r] = "idle"
    /\ \E p \in SmallPayloads : Begin(r, p)

\* two workers run checkout() at the same time, interleaved at the database
\* operations
NextConc ==
    \/ \E r \in Workers : StartConc(r)
    \/ \E r \in Workers : ValidateItem(r)
    \/ \E r \in Workers : InsertOrder(r)
    \/ \E r \in Workers : ReduceStock(r)
    \/ \E r \in Workers : Respond(r)

SpecConc == Init /\ [][NextConc]_vars

\* POST /checkout arrives at a process that may fail
StartLate(r) ==
    /\ pc[r] = "idle"
    /\ Len(orders) < MaxStored
    /\ \E p \in SmallPayloads : Begin(r, p)

\* the process fails while checkout() runs: the handler stops where it is,
\* the database keeps what was written
Crash(r) ==
    /\ pc[r] \in {"validate", "payment", "reduce", "respond"}
    /\ pc' = [pc EXCEPT ![r] = "crashed"]
    /\ UNCHANGED <<products, orders, payload, idx, total, order_items, order_id,
                   resp, pre_products, pre_orders, listed>>

\* the process is started again and serves requests
Restart(r) ==
    /\ pc[r] = "crashed"
    /\ pc' = [pc EXCEPT ![r] = "idle"]
    /\ payload' = [payload EXCEPT ![r] = NoPayload]
    /\ idx' = [idx EXCEPT ![r] = 1]
    /\ total' = [total EXCEPT ![r] = 0]
    /\ order_items' = [order_items EXCEPT ![r] = <<>>]
    /\ order_id' = [order_id EXCEPT ![r] = 0]
    /\ resp' = [resp EXCEPT ![r] = NoResp]
    /\ pre_products' = [pre_products EXCEPT ![r] = products]
    /\ pre_orders' = [pre_orders EXCEPT ![r] = orders]
    /\ UNCHANGED <<products, orders, listed>>

NextCrash ==
    \/ \E r \in Reqs : StartLate(r)
    \/ \E r \in Reqs : ValidateItem(r)
    \/ \E r \in Reqs : InsertOrder(r)
    \/ \E r \in Reqs : ReduceStock(r)
    \/ \E r \in Reqs : Respond(r)
    \/ \E r \in Reqs : Complete(r)
    \/ \E r \in Reqs : Crash(r)
    \/ \E r \in Reqs : Restart(r)
    \/ ListOrders

SpecCrash == Init /\ [][NextCrash]_vars

\* ------------------------------------------------------------ properties
Done(r) == pc[r] = "done"

\* the request has inserted its order
Inserted(r) == order_id[r] # 0

Unchanged(r) == orders = pre_orders[r] /\ products = pre_products[r]

\* s is t up to letter case, t in upper case
SameIgnoringCase(s, t) ==
    /\ Len(s) = Len(t)
    /\ \A i \in 1..Len(s) : s[i] = t[i] \/ UpperChar(s[i]) = t[i]

\* what is wrong with a cart item on its own, per the checkout rules
ItemError(prods, item) ==
    IF item.product_id \notin WellFormedIds \/ item.product_id \notin DOMAIN prods
    THEN ProductNotFound
    ELSE LET p == prods[item.product_id]
             m == {i \in 1..Len(p.sizes) : Str(p.sizes[i].size) = Str(item.size)}
         IN IF ~p.in_stock THEN ProductUnavailable
            ELSE IF m = {} \/ \E i \in m : p.sizes[i].stock < item.quantity
            THEN SizeUnavailable
            ELSE IF item.quantity < 1 THEN "ValidationError"
            ELSE "none"

\* index of the first cart item with an error, 0 when there is none
FirstInvalid(prods, items) ==
    IF \A i \in 1..Len(items) : ItemError(prods, items[i]) = "none" THEN 0
    ELSE CHOOSE i \in 1..Len(items) :
            /\ ItemError(prods, items[i]) # "none"
            /\ \A j \in 1..(i - 1) : ItemError(prods, items[j]) = "none"

RECURSIVE CartSum(_, _)
\* sum over the cart of catalog price x requested quantity
CartSum(prods, items) ==
    IF items = <<>> THEN 0
    ELSE prods[Head(items).product_id].price * Head(items).quantity
         + CartSum(prods, Tail(items))

RECURSIVE Requested(_, _, _)
\* total quantity the cart requests of product id at the stored size sz
Requested(items, id, sz) ==
    IF items = <<>> THEN 0
    ELSE (IF Head(items).product_id = id /\ Str(Head(items).size) = Str(sz)
          THEN Head(items).quantity ELSE 0)
         + Requested(Tail(items), id, sz)

\* C1: whenever a checkout has stored its order, the stored total is the sum
\* over the cart, in request order, of the catalog price read at validation
\* times the requested quantity, every stored item carries that catalog price
\* and the requested quantity, and a returned total is the same sum.
C1_TotalIsCartSum ==
    \A r \in Reqs :
        /\ Inserted(r) =>
              LET o == orders[order_id[r]]
                  items == payload[r].items
              IN /\ o.total = CartSum(pre_products[r], items)
                 /\ Len(o.items) = Len(items)
                 /\ \A i \in 1..Len(items) :
                       /\ o.items[i].product_id = items[i].product_id
                       /\ o.items[i].price = pre_products[r][items[i].product_id].price
                       /\ o.items[i].quantity = items[i].quantity
        /\ (Done(r) /\ resp[r].kind = "ok") =>
              /\ Inserted(r)
              /\ resp[r].total = CartSum(pre_products[r], payload[r].items)

C1_Witness ==
    \E r \in Reqs :
        /\ Done(r) /\ Inserted(r)
        /\ Len(payload[r].items) = 2
        /\ payload[r].items[1].product_id # payload[r].items[2].product_id
        /\ orders[order_id[r]].total = 499000 * 3 + 399000 * 3

\* C2: after a checkout whose items all pass validation and whose payment
\* method is supported, the checkout has succeeded, the stock of every
\* (product, size) is lower by exactly the quantity the cart requested of it,
\* and in_stock is false exactly when every size has stock <= 0.
C2_StockDecreased ==
    \A r \in Reqs :
        (/\ Done(r)
         /\ FirstInvalid(pre_products[r], payload[r].items) = 0
         /\ \E m \in SupportedMethods : SameIgnoringCase(payload[r].payment_method, m))
        => /\ resp[r].kind = "ok"
           /\ \A id \in DOMAIN products :
                 /\ \A i \in 1..Len(products[id].sizes) :
                       products[id].sizes[i].stock =
                          pre_products[r][id].sizes[i].stock
                          - Requested(payload[r].items, id, products[id].sizes[i].size)
                 /\ (\E k \in 1..Len(payload[r].items) :
                        payload[r].items[k].product_id = id) =>
                       (~products[id].in_stock <=>
                          \A i \in 1..Len(products[id].sizes) :
                             products[id].sizes[i].stock <= 0)

\* C3: when some cart item is invalid, the finished checkout answers with the
\* error of the first invalid item in request order, and the order store and
\* every product (stock and in_stock) are as they were when it started.
C3_FailFast ==
    \A r \in Reqs :
        LET k == FirstInvalid(pre_products[r], payload[r].items) IN
        (Done(r) /\ k # 0) =>
            /\ resp[r].kind = "error"
            /\ resp[r].detail = ItemError(pre_products[r], payload[r].items[k])
            /\ Unchanged(r)

C3_Witness ==
    \E r \in Reqs :
        /\ Done(r)
        /\ FirstInvalid(pre_products[r], payload[r].items) = 2
        /\ resp[r].kind = "error"
        /\ Unchanged(r)

\* C4: when the first invalid item of the cart names a product that exists
\* and is in stock, and its size has no entry or an entry with stock below
\* the requested quantity, the checkout answers 400 SizeUnavailable, no order
\* is created and no stock changes.
C4_SizeUnavailable ==
    \A r \in Reqs :
        \A k \in 1..Len(payload[r].items) :
            LET item == payload[r].items[k]
                prods == pre_products[r]
            IN
            (/\ Done(r)
             /\ \A j \in 1..(k - 1) : ItemError(prods, payload[r].items[j]) = "none"
             /\ item.product_id \in DOMAIN prods
             /\ prods[item.product_id].in_stock
             /\ \A i \in 1..Len(prods[item.product_id].sizes) :
                   Str(prods[item.product_id].sizes[i].size) = Str(item.size)
                      => prods[item.product_id].sizes[i].stock < item.quantity)
            => /\ resp[r] = HTTPException(SizeUnavailable)
               /\ Unchanged(r)

C4_Witness ==
    \E r \in Reqs :
        /\ Done(r)
        /\ payload[r].items = <<CartItem("a1", 15, PyInt(40))>>
        /\ resp[r] = HTTPException(SizeUnavailable)
        /\ products["a1"].sizes[1].stock = 10
        /\ orders = <<>>

\* C5: when the first invalid item of the cart has a product id that is
\* malformed or matches no product, the checkout answers 400 ProductNotFound,
\* no order is created and no stock changes.
C5_ProductNotFound ==
    \A r \in Reqs :
        \A k \in 1..Len(payload[r].items) :
            (/\ Done(r)
             /\ \A j \in 1..(k - 1) :
                   ItemError(pre_products[r], payload[r].items[j]) = "none"
             /\ \/ payload[r].items[k].product_id \in MalformedIds
                \/ payload[r].items[k].product_id \notin DOMAIN pre_products[r])
            => /\ resp[r] = HTTPException(ProductNotFound)
               /\ Unchanged(r)

C5_Witness ==
    \E r \in Reqs :
        /\ Done(r)
        /\ Len(payload[r].items) = 2
        /\ payload[r].items[2].product_id \in MalformedIds
        /\ resp[r] = HTTPException(ProductNotFound)

\* C6: a payment method that is neither COD nor QRIS up to letter case
\* leaves the order store and the inventory as they were, and when every
\* cart item is valid the checkout answers 400 UnsupportedPaymentMethod.
C6_UnsupportedPayment ==
    \A r \in Reqs :
        (/\ pc[r] # "idle"
         /\ ~\E m \in {COD, QRIS} : SameIgnoringCase(payload[r].payment_method, m))
        => /\ Unchanged(r)
           /\ ~Inserted(r)
           /\ (Done(r) /\ FirstInvalid(pre_products[r], payload[r].items) = 0)
                 => resp[r] = HTTPException(UnsupportedPaymentMethod)

C6_Witness ==
    \E r \in Reqs :
        /\ Done(r)
        /\ Len(payload[r].items) = 2
        /\ resp[r] = HTTPException(UnsupportedPaymentMethod)
        /\ Unchanged(r)

C7_StatusInv ==
    /\ \A i \in 1..Len(orders) :
          /\ orders[i].status = "cod-confirmed" <=> orders[i].payment_method = COD
          /\ orders[i].status = "pending" <=> orders[i].payment_method = QRIS
          /\ orders[i].status # "paid"
    /\ \A r \in Reqs :
          /\ Inserted(r) =>
                /\ SameIgnoringCase(payload[r].payment_method, COD)
                      => orders[order_id[r]].payment_method = COD
                /\ SameIgnoringCase(payload[r].payment_method, QRIS)
                      => orders[order_id[r]].payment_method = QRIS
          /\ (Done(r) /\ resp[r].kind = "ok") =>
                /\ SameIgnoringCase(payload[r].payment_method, COD) =>
                      /\ resp[r].payment_method = COD
                      /\ resp[r].status = "cod-confirmed"
                      /\ "qris_qr_url" \notin DOMAIN resp[r]
                /\ SameIgnoringCase(payload[r].payment_method, QRIS) =>
                      /\ resp[r].payment_method = QRIS
                      /\ resp[r].status = "pending"
                      /\ "qris_qr_url" \in DOMAIN resp[r]

C7_StatusStep ==
    \A i \in 1..Len(orders) :
        /\ i <= Len(orders')
        /\ orders'[i].status = orders[i].status
        /\ orders'[i].payment_method = orders[i].payment_method

\* C7: every stored order has status cod-confirmed iff its payment method is
\* COD and pending iff it is QRIS, never paid; an order stored for 'cod' or
\* 'qris' in any letter case holds COD or QRIS; a successful response carries
\* the same method and status, with a QR reference for QRIS only; and no
\* step changes the status of a stored order.
C7_StatusByPayment == [](C7_StatusInv) /\ [][C7_StatusStep]_vars

C7_Witness ==
    \E r \in Reqs :
        /\ Done(r) /\ resp[r].kind = "ok"
        /\ payload[r].payment_method = <<"Q", "r", "i", "s">>
        /\ "qris_qr_url" \in DOMAIN resp[r]
        /\ orders[order_id[r]].status = "pending"
        /\ orders[order_id[r]].payment_method = QRIS

FlagConsistent(prods) ==
    \A id \in DOMAIN prods :
        prods[id].in_stock <=>
            \E i \in 1..Len(prods[id].sizes) : prods[id].sizes[i].stock > 0

C10_OneOrderPerSuccess ==
    \A r \in Reqs :
        Done(r) =>
            IF resp[r].kind = "ok"
            THEN /\ Len(orders) = Len(pre_orders[r]) + 1
                 /\ SubSeq(orders, 1, Len(pre_orders[r])) = pre_orders[r]
            ELSE orders = pre_orders[r]

\* C11: when the first invalid item of the cart names a product whose
\* in_stock is false, the checkout answers 400 ProductUnavailable whatever
\* the stock of the requested size is (enough, too little, or no such size),
\* no order is created and no stock changes.
C11_ProductUnavailable ==
    \A r \in Reqs :
        \A k \in 1..Len(payload[r].items) :
            (/\ Done(r)
             /\ \A j \in 1..(k - 1) :
                   ItemError(pre_products[r], payload[r].items[j]) = "none"
             /\ payload[r].items[k].product_id \in DOMAIN pre_products[r]
             /\ ~pre_products[r][payload[r].items[k].product_id].in_stock)
            => /\ resp[r] = HTTPException(ProductUnavailable)
               /\ Unchanged(r)

C11_Witness ==
    \E r \in Reqs :
        /\ Done(r)
        /\ Len(payload[r].items) = 2
        /\ payload[r].items[2] = CartItem("a3", 1, PyInt(40))
        /\ ~pre_products[r]["a3"].in_stock
        /\ pre_products[r]["a3"].sizes[1].stock >= 1
        /\ resp[r] = HTTPException(ProductUnavailable)
        /\ Unchanged(r)

\* C12: when two concurrent checkouts of the same (product, size) have both
\* passed validation against the same stock, each asking for no more than
\* that stock and together for more, and both orders are stored and both
\* stock loops are over, the resulting stock is negative.
C12_Overdraw ==
    \A r1, r2 \in Workers :
        (/\ r1 # r2
         /\ Done(r1) /\ Done(r2)
         /\ Inserted(r1) /\ Inserted(r2)
         /\ payload[r1].items = <<CartItem("a2", 3, PyInt(40))>>
         /\ payload[r2].items = <<CartItem("a2", 3, PyInt(40))>>
         /\ pre_products[r1]["a2"].sizes[2].stock = 5
         /\ pre_products[r2]["a2"].sizes[2].stock = 5)
        => products["a2"].sizes[2].stock < 0

C13_NoEarlyWrite ==
    \A r \in Reqs : pc[r] \in {"validate", "payment"} => Unchanged(r)

C13_InsertStep ==
    orders' # orders =>
        \E r \in Reqs :
            /\ pc[r] = "payment"
            /\ Len(order_items[r]) = Len(payload[r].items)
            /\ FirstInvalid(pre_products[r], payload[r].items) = 0
            /\ \E m \in {COD, QRIS} : SameIgnoringCase(payload[r].payment_method, m)
            /\ Len(orders') = Len(orders) + 1
            /\ SubSeq(orders', 1, Len(orders)) = orders
            /\ products = pre_products[r]
            /\ products' = products

C13_DecrementStep ==
    products' # products =>
        \E r \in Reqs :
            /\ pc[r] = "reduce"
            /\ Inserted(r)
            /\ orders' = orders
            /\ idx'[r] = idx[r] + 1
            /\ LET oi == order_items[r][idx[r]]
                   old == products[oi.product_id]
                   new == products'[oi.product_id]
               IN /\ \A id \in DOMAIN products :
                        id # oi.product_id => products'[id] = products[id]
                  /\ Len(new.sizes) = Len(old.sizes)
                  /\ \E k \in 1..Len(old.sizes) :
                        /\ new.sizes[k].stock = old.sizes[k].stock - oi.quantity
                        /\ \A j \in 1..Len(old.sizes) :
                              j # k => new.sizes[j] = old.sizes[j]
                  /\ new.in_stock =
                        IF \A j \in 1..Len(new.sizes) : new.sizes[j].stock <= 0
                        THEN FALSE ELSE old.in_stock

\* C13: a checkout writes nothing while it validates and tests the payment
\* method; the order store changes only by one append, made by a checkout
\* whose items have all passed validation and whose method is supported,
\* before it has touched the inventory; the inventory changes only in the
\* stock loop of a checkout that has inserted its order, for the order item
\* whose turn it is, by that item's quantity on one size, with in_stock
\* recomputed for that product in the same pass.
C13_StepOrder ==
    [](C13_NoEarlyWrite) /\ [][C13_InsertStep /\ C13_DecrementStep]_vars

C13_Witness ==
    \E r \in Reqs :
        /\ pc[r] = "reduce"
        /\ Inserted(r)
        /\ Len(order_items[r]) = 2
        /\ idx[r] = 1
        /\ Len(orders) = Len(pre_orders[r]) + 1
        /\ products = pre_products[r]

Crashed(r) == pc[r] = "crashed"

RECURSIVE ItemsQty(_, _)
\* total quantity of product id in a sequence of order items
ItemsQty(items, id) ==
    IF items = <<>> THEN 0
    ELSE (IF Head(items).product_id = id THEN Head(items).quantity ELSE 0)
         + ItemsQty(Tail(items), id)

RECURSIVE OrdersQty(_, _)
\* total quantity of product id in a sequence of stored orders
OrdersQty(os, id) ==
    IF os = <<>> THEN 0
    ELSE ItemsQty(Head(os).items, id) + OrdersQty(Tail(os), id)

RECURSIVE StockSum(_)
StockSum(sizes) ==
    IF sizes = <<>> THEN 0 ELSE Head(sizes).stock + StockSum(Tail(sizes))

\* stock of product id deducted between two contents of the collection
Deducted(before, after, id) == StockSum(before[id].sizes) - StockSum(after[id].sizes)

RECURSIVE PendingQty(_, _)
\* quantity of product id that the stock loops in progress among the
\* workers rs have still to deduct
PendingQty(rs, id) ==
    IF rs = {} THEN 0
    ELSE LET r == CHOOSE x \in rs : TRUE IN
         (IF pc[r] = "reduce"
          THEN ItemsQty(SubSeq(order_items[r], idx[r], Len(order_items[r])), id)
          ELSE 0)
         + PendingQty(rs \ {r}, id)

\* quantity of product id that is in stored orders, was not deducted from
\* its stock and is not going to be deducted by a checkout in progress
Lost(id) ==
    OrdersQty(orders, id) - Deducted(InitProducts, products, id)
    - PendingQty(Workers, id)

C14_AfterFailure ==
    \A r \in Reqs :
        (Crashed(r) /\ Inserted(r)) =>
            /\ order_id[r] <= Len(orders)
            /\ orders[order_id[r]].items = order_items[r]
            /\ orders[order_id[r]].total = total[r]
            /\ \A id \in DOMAIN products :
                  Deducted(pre_products[r], products, id)
                     = ItemsQty(SubSeq(order_items[r], 1, idx[r] - 1), id)
            /\ idx[r] <= Len(order_items[r]) =>
                  Lost(order_items[r][idx[r]].product_id) > 0

C14_NoRepair ==
    /\ Len(orders') >= Len(orders)
    /\ SubSeq(orders', 1, Len(orders)) = orders
    /\ \A id \in DOMAIN products : Lost(id)' >= Lost(id)

\* C14: when the process fails after a checkout has inserted its order, the
\* order stays stored as inserted, the stock deducted so far is exactly that
\* of the order items the stock loop has passed, and if the loop had not
\* finished the stored orders hold more of that product than was or will be
\* deducted; no later step removes or changes a stored order or makes up
\* any of the difference.
C14_PartialFailure == [](C14_AfterFailure) /\ [][C14_NoRepair]_vars

C14_Witness ==
    \E r \in Reqs :
        /\ Crashed(r) /\ Inserted(r)
        /\ order_id[r] = 2
        /\ idx[r] <= Len(order_items[r])
        /\ Lost(order_items[r][idx[r]].product_id) > 0
        /\ orders[1].items # <<>>
        /\ Lost(orders[1].items[1].product_id) > 0

\* the size numbers that occur in the catalog and the requests
SizeNumbers == {39, 40, 41}

\* the same size in the other representation: n for the str of n, the str
\* of n for n; a str that is the str of no size number has none
TwinSize(size) ==
    IF size.kind = "int" THEN PyStr(Decimal(size.n))
    ELSE IF \E n \in SizeNumbers : Decimal(n) = size.s
    THEN PyInt(CHOOSE n \in SizeNumbers : Decimal(n) = size.s)
    ELSE size

TwinPayload(p) ==
    [p EXCEPT !.items = [i \in 1..Len(p.items) |->
                            [p.items[i] EXCEPT !.size = TwinSize(p.items[i].size)]]]

C16_StockConservation ==
    (\A r \in Workers : pc[r] \in {"idle", "done"}) =>
        \A id \in DOMAIN products :
            Deducted(InitProducts, products, id) = OrdersQty(orders, id)

C17_QuantityInv ==
    /\ \A i \in 1..Len(orders) :
          \A j \in 1..Len(orders[i].items) : orders[i].items[j].quantity >= 1
    /\ \A r \in Reqs :
          (/\ pc[r] # "idle"
           /\ \E k \in 1..Len(payload[r].items) : payload[r].items[k].quantity < 1)
          => ~Inserted(r) /\ Unchanged(r)

C17_StockStep ==
    \A id \in DOMAIN products :
        \A i \in 1..Len(products[id].sizes) :
            products'[id].sizes[i].stock <= products[id].sizes[i].stock

\* C17: no stored order holds an item of quantity below 1, a checkout whose
\* cart holds an item of quantity 0 or less never inserts an order nor
\* changes any stock, and no step raises a per-size stock.
C17_NoStockIncrease == [](C17_QuantityInv) /\ [][C17_StockStep]_vars

C17_Witness ==
    \E r \in Reqs :
        /\ Done(r)
        /\ payload[r].items =
              <<CartItem("a1", 3, PyInt(40)), CartItem("a1", -1, PyInt(40))>>
        /\ \E m \in {COD, QRIS} : SameIgnoringCase(payload[r].payment_method, m)
        /\ resp[r] = ServerError("ValidationError")
        /\ Unchanged(r)

C18_FlaggedInv ==
    \A r \in Reqs :
      /\ \A id \in DOMAIN products :
            (pc[r] # "idle" /\ ~pre_products[r][id].in_stock)
            => products[id].sizes = pre_products[r][id].sizes
      /\ \A k \in 1..Len(payload[r].items) :
            (/\ Done(r)
             /\ payload[r].items[k].product_id \in DOMAIN pre_products[r]
             /\ ~pre_products[r][payload[r].items[k].product_id].in_stock)
            => /\ resp[r].kind = "error"
               /\ ~Inserted(r)
               /\ Unchanged(r)
               /\ (\A j \in 1..(k - 1) :
                      ItemError(pre_products[r], payload[r].items[j]) = "none")
                     => resp[r] = HTTPException(ProductUnavailable)

C18_FlagStep ==
    \A id \in DOMAIN products : ~products[id].in_stock => ~products'[id].in_stock

\* C18: no step turns an in_stock flag from false to true, and a checkout
\* that arrives when a product of its cart has in_stock false fails, with
\* 400 ProductUnavailable when the items before that one are valid, without
\* inserting an order or changing any stock.
C18_FlagMonotone == [](C18_FlaggedInv) /\ [][C18_FlagStep]_vars

C18_Witness ==
    \E r \in Reqs :
        /\ Done(r)
        /\ payload[r].items =
              <<CartItem("a1", 3, PyInt(40)), CartItem("a3", 1, PyInt(40))>>
        /\ ~products["a3"].in_stock
        /\ resp[r] = HTTPException(ProductUnavailable)
        /\ products["a3"].sizes = pre_products[r]["a3"].sizes

\* C19: a checkout with an empty cart and a payment method that is COD or
\* QRIS up to letter case succeeds: it appends exactly one order, with no
\* items, total 0 and the status of its method, and leaves every product as
\* it was.
C19_EmptyCart ==
    \A r \in Reqs :
        (/\ Done(r)
         /\ payload[r].items = <<>>
         /\ \E m \in {COD, QRIS} : SameIgnoringCase(payload[r].payment_method, m))
        => /\ resp[r].kind = "ok"
           /\ resp[r].total = 0
           /\ Len(orders) = Len(pre_orders[r]) + 1
           /\ SubSeq(orders, 1, Len(pre_orders[r])) = pre_orders[r]
           /\ orders[Len(orders)].items = <<>>
           /\ orders[Len(orders)].total = 0
           /\ orders[Len(orders)].status =
                 (IF SameIgnoringCase(payload[r].payment_method, QRIS)
                  THEN "pending" ELSE "cod-confirmed")
           /\ resp[r].status = orders[Len(orders)].status
           /\ products = pre_products[r]

C19_Witness ==
    \E r \in Reqs :
        /\ Done(r)
        /\ payload[r].items = <<>>
        /\ payload[r].payment_method = <<"c", "o", "d">>
        /\ resp[r].kind = "ok"
        /\ Len(orders) = 1
        /\ orders[1].items = <<>>
        /\ orders[1].status = "cod-confirmed"

====
